---- MODULE Spec2Model ----
(***************************************************************************)
(* Model of Backend/db.py (Platter): the User entity's credential and      *)
(* session methods, the User serializers and Recipe.serialize.             *)
(*                                                                         *)
(* Python values are modelled with their type: a str or bytes value is a   *)
(* record [type, v] whose v is a sequence of characters, None is its own   *)
(* record.  A method call either returns a value or raises; every action   *)
(* records the call it models in `last` (operation, arguments, the         *)
(* exception raised or "" and the value returned).                         *)
(***************************************************************************)
EXTENDS Integers, Sequences, FiniteSets, TLC

VARIABLES users, recipes, now, issued_at, last

vars == <<users, recipes, now, issued_at, last>>

(***************************************************************************)
(* Bounds of the model.                                                    *)
(***************************************************************************)
NumUsers == 2
\* outcomes of one os.urandom(64) draw
NumTokens == 3
\* clock resolution: ticks of datetime.now() per day
TicksPerDay == 2
\* last clock value the model explores
MaxTime == 5
\* longest stored ingredients/instructions string
MaxStrLen == 3
\* longest stored ingredients/instructions list
MaxListLen == 2

\* datetime.timedelta(days=1)
Days == 1

Users == 1..NumUsers
RecipeIds == {1, 2}
Rand == 1..NumTokens

(***************************************************************************)
(* Python values.                                                          *)
(***************************************************************************)
None == [type |-> "NoneType", v |-> <<>>]
Str(s) == [type |-> "str", v |-> s]
Bytes(s) == [type |-> "bytes", v |-> s]

\* the outcome of a call: it raised `exc`, or returned `val`
Raise(exc) == [raised |-> exc, ret |-> None]
Return(val) == [raised |-> "", ret |-> val]

(***************************************************************************)
(* User._urlsafe_base_64: the hex digest of SHA-1 over one random draw.    *)
(* The digest is a non-empty string of hex digits; the model keeps one     *)
(* digit, the draw itself, so two calls agree exactly when their draws do. *)
(***************************************************************************)
urlsafe_base_64(r) == <<r>>

Tokens == {urlsafe_base_64(r) : r \in Rand}
\* strings a caller may present as a token: every digest and the empty string
Candidates == Tokens \cup {<<>>}

timedelta == Days * TicksPerDay

\* renew_session without the timedelta: the session expires as it is issued
renew_session_no_lifetime(self, t, r1, r2) ==
    [self EXCEPT !.session_token = urlsafe_base_64(r1),
                 !.session_expiration = t,
                 !.update_token = urlsafe_base_64(r2)]

\* renew_session using one digest for both tokens
renew_session_one_digest(self, t, r1, r2) ==
    [self EXCEPT !.session_token = urlsafe_base_64(r1),
                 !.session_expiration = t + timedelta,
                 !.update_token = urlsafe_base_64(r1)]

\* renew_session that leaves the update token as it was
renew_session_keeps_update(self, t, r1, r2) ==
    [self EXCEPT !.session_token = urlsafe_base_64(r1),
                 !.session_expiration = t + timedelta]

(***************************************************************************)
(* User.renew_session at clock value t with the two draws r1, r2.          *)
(***************************************************************************)
renew_session(self, t, r1, r2) ==
    [self EXCEPT !.session_token = urlsafe_base_64(r1),
                 !.session_expiration = t + timedelta,
                 !.update_token = urlsafe_base_64(r2)]

\* verify_session_token accepting the expiration instant itself
verify_session_token_inclusive(self, session_token, t) ==
    session_token = self.session_token /\ t <= self.session_expiration

\* User.verify_session_token at clock value t
verify_session_token(self, session_token, t) ==
    session_token = self.session_token /\ t < self.session_expiration

\* verify_update_token with the expiration test of the session token
verify_update_token_expiring(self, update_token) ==
    update_token = self.update_token /\ now < self.session_expiration

\* User.verify_update_token
verify_update_token(self, update_token) ==
    update_token = self.update_token

(***************************************************************************)
(* bcrypt, as db.py calls it.  A call is modelled on the tuple of its      *)
(* positional arguments: hashpw and checkpw take exactly two, both bytes.  *)
(* The digest of password pw under salt keeps both (the model of a one-way *)
(* function that checkpw can recompute), after the "$2b$" prefix.          *)
(***************************************************************************)
Digest(salt, pw) == <<"$2b$">> \o salt \o pw

SaltOf(digest) == SubSeq(digest, 2, 2)

bcrypt_hashpw(args) ==
    IF Len(args) # 2 THEN Raise("TypeError")
    ELSE IF args[1].type # "bytes" \/ args[2].type # "bytes" THEN Raise("TypeError")
    ELSE Return(Bytes(Digest(args[2].v, args[1].v)))

bcrypt_checkpw(args) ==
    IF Len(args) # 2 THEN Raise("TypeError")
    ELSE IF args[1].type # "bytes" \/ args[2].type # "bytes" THEN Raise("TypeError")
    ELSE Return(args[2].v = Digest(SaltOf(args[2].v), args[1].v))

\* value.encode("utf8"): only a str has the method
encode(value) ==
    IF value.type = "str" THEN Return(Bytes(value.v)) ELSE Raise("AttributeError")

(***************************************************************************)
(* User.__init__ with its kwargs, at clock value t with the draws r1, r2.   *)
(* kwargs.get gives None for a missing key.  The three names are assigned, *)
(* then line 46 calls bcrypt.hashpw with the one argument                  *)
(* kwargs.get("password_digest") and sends .encode to what it returns (a   *)
(* bytes value); the digest assigned is the pair of that and a decoded     *)
(* salt.  renew_session (line 47) runs only once line 46 has completed.    *)
(* The outcome is the exception raised, or the constructed object.         *)
(***************************************************************************)
user_init(kwargs, t, r1, r2) ==
    LET h == bcrypt_hashpw(<<kwargs.password_digest>>)
    IN  IF h.raised # "" THEN Raise(h.raised)
        ELSE LET e == encode(h.ret)
             IN  IF e.raised # "" THEN Raise(e.raised)
                 ELSE Return(renew_session(
                          [id |-> None,
                           first_name |-> kwargs.first_name,
                           last_name |-> kwargs.last_name,
                           username |-> kwargs.username,
                           password_digest |-> <<e.ret, Str(<<"s">>)>>,
                           session_token |-> None,
                           session_expiration |-> None,
                           update_token |-> None,
                           posts |-> <<>>,
                           saved_recipes |-> <<>>], t, r1, r2))

\* User.verify_password
verify_password(self, password) ==
    LET e == encode(password)
    IN  IF e.raised # "" THEN Raise(e.raised)
        ELSE bcrypt_checkpw(<<e.ret, self.password_digest>>)

(***************************************************************************)
(* Recipe.serialize.  ingredients and instructions are JSON columns: a     *)
(* list, or a str that is split at "\n"; any other value has no .split.    *)
(***************************************************************************)
List(l) == [type |-> "list", v |-> l]

NL == "\n"

RECURSIVE split(_, _)
split(s, sep) ==
    IF \A i \in 1..Len(s) : s[i] # sep THEN <<s>>
    ELSE LET i == CHOOSE k \in 1..Len(s) :
                      s[k] = sep /\ \A j \in 1..(k - 1) : s[j] # sep
         IN  <<SubSeq(s, 1, i - 1)>> \o split(SubSeq(s, i + 1, Len(s)), sep)

\* str.splitlines in place of split: no empty last line after a final "\n"
splitlines(s, sep) ==
    LET parts == split(s, sep)
    IN  IF Len(parts) > 1 /\ parts[Len(parts)] = <<>>
        THEN SubSeq(parts, 1, Len(parts) - 1) ELSE parts

as_list_splitlines(x) ==
    IF x.type = "list" THEN Return(x.v)
    ELSE IF x.type = "str" THEN Return(splitlines(x.v, NL))
    ELSE Raise("AttributeError")

\* x if isinstance(x, list) else x.split('\n')
as_list(x) ==
    IF x.type = "list" THEN Return(x.v)
    ELSE IF x.type = "str" THEN Return(split(x.v, NL))
    ELSE Raise("AttributeError")

recipe_serialize(self) ==
    LET ing == as_list(self.ingredients)
        ins == as_list(self.instructions)
    IN  IF ing.raised # "" THEN Raise(ing.raised)
        ELSE IF ins.raised # "" THEN Raise(ins.raised)
        ELSE Return([id |-> self.id,
                     title |-> self.title,
                     summary |-> self.summary,
                     ingredients |-> ing.ret,
                     instructions |-> ins.ret])

(***************************************************************************)
(* User.simple_serialize and User.serialize.  serialize calls              *)
(* post.serialize() on every post of the user, a method class Post does    *)
(* not define, and then Recipe.serialize on every saved recipe.            *)
(***************************************************************************)
\* simple_serialize of every column the three names come with
simple_serialize_with_token(self) ==
    Return([id |-> self.id,
            first_name |-> self.first_name,
            last_name |-> self.last_name,
            username |-> self.username,
            session_token |-> self.session_token])

simple_serialize(self) ==
    Return([id |-> self.id,
            first_name |-> self.first_name,
            last_name |-> self.last_name,
            username |-> self.username])

serialize(self, rs) ==
    LET saved == [i \in 1..Len(self.saved_recipes) |->
                      recipe_serialize(rs[self.saved_recipes[i]])]
    IN  IF self.posts # <<>> THEN Raise("AttributeError")
        ELSE IF \E i \in 1..Len(saved) : saved[i].raised # ""
        THEN Raise("AttributeError")
        ELSE Return([id |-> self.id,
                     first_name |-> self.first_name,
                     last_name |-> self.last_name,
                     username |-> self.username,
                     posts |-> <<>>,
                     saved_recipes |-> [i \in 1..Len(saved) |-> saved[i].ret]])

(***************************************************************************)
(* The rows of the users and recipes tables (the columns of lines 17-35    *)
(* and 110-117).  The ORM loads a row without calling __init__.  Every     *)
(* stored password_digest is the bcrypt digest of the password "p"; the    *)
(* String column gives it back as a str, or as the bytes that were stored. *)
(***************************************************************************)
StoredPassword == <<"p">>

UserRow(u, digest_type) ==
    [id |-> u,
     first_name |-> Str(<<"f">>),
     last_name |-> Str(<<"l">>),
     username |-> Str(<<"u">>),
     password_digest |-> [type |-> digest_type, v |-> Digest(<<"s">>, StoredPassword)],
     session_token |-> urlsafe_base_64(((u - 1) % NumTokens) + 1),
     session_expiration |-> timedelta,
     update_token |-> urlsafe_base_64((u % NumTokens) + 1),
     posts |-> IF u % 2 = 0 THEN <<u>> ELSE <<>>,
     saved_recipes |-> IF u % 2 = 1 THEN <<1, 2>> ELSE <<>>]

RecipeRow(r, ing, ins) ==
    [id |-> r,
     title |-> Str(<<"t">>),
     summary |-> Str(<<"s">>),
     ingredients |-> ing,
     instructions |-> ins]

Chars == {"a", NL}
Strings == UNION {[1..k -> Chars] : k \in 0..MaxStrLen}
Items == {<<"a">>, <<"a", NL, "a">>}
Lists == UNION {[1..k -> Items] : k \in 0..MaxListLen}
\* what a JSON column of a recipe holds: a list of strings, or one string
Stored == {Str(s) : s \in Strings} \cup {List(l) : l \in Lists}

FixedRecipes ==
    [r \in RecipeIds |->
        IF r = 1 THEN RecipeRow(r, Str(<<"a", NL, "a">>), List(<< <<"a">> >>))
        ELSE RecipeRow(r, List(<< <<"a">>, <<"a">> >>), Str(<<"a">>))]

NoCall == [op |-> "none", user |-> 0, arg |-> None, raised |-> "", ret |-> None]

Call(op, u, arg, outcome) ==
    [op |-> op, user |-> u, arg |-> arg, raised |-> outcome.raised, ret |-> outcome.ret]

Init ==
    /\ users = [u \in Users |-> UserRow(u, "str")]
    /\ recipes = FixedRecipes
    /\ now = 0
    /\ issued_at = [u \in Users |-> 0]
    /\ last = NoCall

InitAccount ==
    /\ \E dt \in [Users -> {"str", "bytes"}] : users = [u \in Users |-> UserRow(u, dt[u])]
    /\ recipes = FixedRecipes
    /\ now = 0
    /\ issued_at = [u \in Users |-> 0]
    /\ last = NoCall

InitRecipe ==
    /\ users = [u \in Users |-> UserRow(u, "str")]
    /\ \E ing \in Stored, ins \in Stored :
          recipes = [r \in RecipeIds |->
                        IF r = 1 THEN RecipeRow(r, ing, ins) ELSE FixedRecipes[r]]
    /\ now = 0
    /\ issued_at = [u \in Users |-> 0]
    /\ last = NoCall

(***************************************************************************)
(* Actions: one per method call, and the clock.                            *)
(***************************************************************************)
Kwargs ==
    [first_name : {None, Str(<<"f">>)},
     last_name : {None, Str(<<"l">>)},
     username : {None, Str(<<"u">>)},
     password_digest : {None, Str(<<"p">>), Str(<<"q">>), Bytes(<<"p">>)},
     image_url : {None, Str(<<"i">>)}]

Passwords == {None, Str(<<"p">>), Str(<<"q">>)}

\* User(**kwargs): the object reaches the caller only when __init__ returns
Create(kwargs, r1, r2) ==
    /\ last' = Call("create", 0, kwargs, user_init(kwargs, now, r1, r2))
    /\ UNCHANGED <<users, recipes, now, issued_at>>

VerifyPassword(u, password) ==
    /\ last' = Call("verify_password", u, password, verify_password(users[u], password))
    /\ UNCHANGED <<users, recipes, now, issued_at>>

RenewSession(u, r1, r2) ==
    /\ users' = [users EXCEPT ![u] = renew_session(users[u], now, r1, r2)]
    /\ issued_at' = [issued_at EXCEPT ![u] = now]
    /\ last' = Call("renew_session", u, <<r1, r2>>, Return(None))
    /\ UNCHANGED <<recipes, now>>

VerifySessionToken(u, token) ==
    /\ last' = Call("verify_session_token", u, token,
                    Return(verify_session_token(users[u], token, now)))
    /\ UNCHANGED <<users, recipes, now, issued_at>>

VerifyUpdateToken(u, token) ==
    /\ last' = Call("verify_update_token", u, token,
                    Return(verify_update_token(users[u], token)))
    /\ UNCHANGED <<users, recipes, now, issued_at>>

Serialize(u) ==
    /\ last' = Call("serialize", u, None, serialize(users[u], recipes))
    /\ UNCHANGED <<users, recipes, now, issued_at>>

SimpleSerialize(u) ==
    /\ last' = Call("simple_serialize", u, None, simple_serialize(users[u]))
    /\ UNCHANGED <<users, recipes, now, issued_at>>

RecipeSerialize(r) ==
    /\ last' = Call("recipe_serialize", r, None, recipe_serialize(recipes[r]))
    /\ UNCHANGED <<users, recipes, now, issued_at>>

\* datetime.datetime.now() advances
Tick ==
    /\ now < MaxTime
    /\ now' = now + 1
    /\ last' = NoCall
    /\ UNCHANGED <<users, recipes, issued_at>>

(***************************************************************************)
(* Specifications.  Spec: the population of users renewing sessions and    *)
(* being serialized.  SpecSession: one user's session against the clock.   *)
(* SpecAccount: account creation and verify_password.  SpecRecipe: recipe  *)
(* serialization over every stored form.                                   *)
(***************************************************************************)
Subject == CHOOSE u \in Users : \A v \in Users : u <= v

Next ==
    \/ \E u \in Users, r1 \in Rand, r2 \in Rand : RenewSession(u, r1, r2)
    \/ \E u \in Users : Serialize(u)
    \/ \E u \in Users : SimpleSerialize(u)

Spec == Init /\ [][Next]_vars

NextSession ==
    \/ \E r1 \in Rand, r2 \in Rand : RenewSession(Subject, r1, r2)
    \/ \E token \in Candidates : VerifySessionToken(Subject, token)
    \/ \E token \in Candidates : VerifyUpdateToken(Subject, token)
    \/ Tick

SpecSession == Init /\ [][NextSession]_vars

NextAccount ==
    \/ \E kwargs \in Kwargs, r1 \in Rand, r2 \in Rand : Create(kwargs, r1, r2)
    \/ \E u \in Users, password \in Passwords : VerifyPassword(u, password)

SpecAccount == InitAccount /\ [][NextAccount]_vars

NextRecipe ==
    \E r \in RecipeIds : RecipeSerialize(r)

SpecRecipe == InitRecipe /\ [][NextRecipe]_vars

(***************************************************************************)
(* Properties.                                                             *)
(***************************************************************************)
SessionFields(row) == <<row.session_token, row.session_expiration, row.update_token>>

\* C1: a verify_session_token call returns (never raises) a boolean that is
\* true exactly when the token presented equals the stored session_token and
\* the clock is strictly before session_expiration; at now = session_expiration
\* it is false.
C1_VerifySessionIff ==
    last.op = "verify_session_token" =>
        LET self == users[last.user]
        IN  /\ last.raised = ""
            /\ last.ret \in BOOLEAN
            /\ last.ret = TRUE <=>
                  (last.arg = self.session_token /\ now < self.session_expiration)
            /\ now = self.session_expiration => last.ret = FALSE

\* the stored token presented exactly at the expiration instant is refused
C1_Witness ==
    /\ last.op = "verify_session_token"
    /\ last.arg = users[last.user].session_token
    /\ now = users[last.user].session_expiration
    /\ issued_at[last.user] > 0
    /\ last.ret = FALSE

\* C8: a verify_update_token call returns true exactly when the token
\* presented equals the stored update_token, whatever the clock; and only a
\* renew_session step changes the stored update_token.
C8_VerifyUpdateIff ==
    /\ [](last.op = "verify_update_token" =>
            /\ last.raised = ""
            /\ last.ret = TRUE <=> last.arg = users[last.user].update_token)
    /\ [][last'.op # "renew_session" =>
            \A u \in Users : users'[u].update_token = users[u].update_token]_vars

\* the update token still verifies after the session has expired
C8_Witness ==
    /\ last.op = "verify_update_token"
    /\ now > users[last.user].session_expiration
    /\ last.arg = users[last.user].update_token
    /\ last.ret = TRUE
    /\ ~verify_session_token(users[last.user], users[last.user].session_token, now)

\* C10: a session issued at time t expires at t + 24 hours (one day of
\* ticks); its token verifies at every time in [t, t + 24h) and no token
\* verifies from t + 24h on; renew_session sets the expiration to now + 24h
\* and the token it issues verifies at once; no step other than renew_session
\* changes session_token, session_expiration or update_token, and
\* renew_session changes them for its own user only.
C10_SessionLifecycle ==
    /\ [](\A u \in Users :
            /\ users[u].session_expiration = issued_at[u] + TicksPerDay
            /\ (issued_at[u] <= now /\ now < issued_at[u] + TicksPerDay)
                  => verify_session_token(users[u], users[u].session_token, now)
            /\ now >= issued_at[u] + TicksPerDay
                  => \A token \in Candidates : ~verify_session_token(users[u], token, now))
    /\ [][/\ last'.op # "renew_session" =>
                \A u \in Users : SessionFields(users'[u]) = SessionFields(users[u])
          /\ last'.op = "renew_session" =>
                /\ users'[last'.user].session_expiration = now + TicksPerDay
                /\ verify_session_token(users'[last'.user],
                                        users'[last'.user].session_token, now')
                /\ \A u \in Users \ {last'.user} :
                      SessionFields(users'[u]) = SessionFields(users[u])]_vars

\* a session renewed after the first one had expired verifies again
C10_Witness ==
    /\ last.op = "verify_session_token"
    /\ issued_at[last.user] >= TicksPerDay
    /\ last.arg = users[last.user].session_token
    /\ last.ret = TRUE

RenewStep == last'.op = "renew_session"

\* C2 as claimed: every renew_session stores a session token and an update
\* token that differ from the ones stored before it, so neither old token
\* verifies afterwards.
C2_AlwaysFreshTokens ==
    [][RenewStep =>
          LET u == last'.user
          IN  /\ users'[u].session_token # users[u].session_token
              /\ users'[u].update_token # users[u].update_token
              /\ ~verify_session_token(users'[u], users[u].session_token, now')
              /\ ~verify_update_token(users'[u], users[u].update_token)]_vars

\* C2 as amended: renew_session overwrites both tokens with the digests of
\* its two random draws, and afterwards exactly those verify; an old token
\* stops verifying whenever the new digest differs from it, which the code
\* does not compare them.
C2_RenewOverwrites ==
    [][RenewStep =>
          LET u == last'.user
              s == urlsafe_base_64(last'.arg[1])
              t == urlsafe_base_64(last'.arg[2])
          IN  /\ users'[u].session_token = s
              /\ users'[u].update_token = t
              /\ \A c \in Candidates :
                    /\ verify_session_token(users'[u], c, now') <=> c = s
                    /\ verify_update_token(users'[u], c) <=> c = t
              /\ users[u].session_token # s
                    => ~verify_session_token(users'[u], users[u].session_token, now')
              /\ users[u].update_token # t
                    => ~verify_update_token(users'[u], users[u].update_token)]_vars

\* a renewal has replaced both tokens of a user, and the first ones fail
C2_Witness ==
    /\ last.op = "renew_session"
    /\ LET u == last.user
           old == UserRow(u, "str")
       IN  /\ users[u].session_token # old.session_token
           /\ users[u].update_token # old.update_token
           /\ ~verify_session_token(users[u], old.session_token, now)
           /\ ~verify_update_token(users[u], old.update_token)

NonEmptyTokens ==
    \A u \in Users : users[u].session_token # <<>> /\ users[u].update_token # <<>>

DistinctTokens ==
    /\ \A u \in Users : users[u].session_token # users[u].update_token
    /\ \A u \in Users, v \in Users :
          u # v => /\ users[u].session_token # users[v].session_token
                   /\ users[u].update_token # users[v].update_token

\* C7 as claimed: in every reachable state each user's two tokens are
\* non-empty and differ, and no two users share a session token or share an
\* update token.
C7_TokensUnique == NonEmptyTokens /\ DistinctTokens

\* C7 as amended: both tokens of every user are always non-empty; a
\* renew_session keeps them distinct and unique across users when its two
\* draws give different digests that no other user holds in the same column.
C7_UniqueWhileDrawsDiffer ==
    /\ []NonEmptyTokens
    /\ [][(/\ RenewStep
           /\ DistinctTokens
           /\ urlsafe_base_64(last'.arg[1]) # urlsafe_base_64(last'.arg[2])
           /\ \A v \in Users \ {last'.user} :
                 /\ users[v].session_token # urlsafe_base_64(last'.arg[1])
                 /\ users[v].update_token # urlsafe_base_64(last'.arg[2]))
          => DistinctTokens']_vars

\* every user has renewed and the population's tokens are distinct
C7_Witness ==
    /\ last.op = "renew_session"
    /\ DistinctTokens
    /\ \A u \in Users : users[u].session_token # UserRow(u, "str").session_token

Sensitive == {"password_digest", "session_token", "update_token"}

Public == {"id", "first_name", "last_name", "username"}

\* C6: simple_serialize returns exactly the keys id, first_name, last_name
\* and username; whenever serialize returns a mapping, neither it nor a
\* recipe nested in it has a key for the password digest, the session token
\* or the update token; the values under the four keys are those columns.
C6_NoSecretsSerialized ==
    /\ last.op = "simple_serialize" =>
          /\ last.raised = ""
          /\ DOMAIN last.ret = Public
          /\ \A k \in Public : last.ret[k] = users[last.user][k]
    /\ (last.op = "serialize" /\ last.raised = "") =>
          /\ DOMAIN last.ret \cap Sensitive = {}
          /\ DOMAIN last.ret = Public \cup {"posts", "saved_recipes"}
          /\ \A k \in Public : last.ret[k] = users[last.user][k]
          /\ \A i \in 1..Len(last.ret.saved_recipes) :
                DOMAIN last.ret.saved_recipes[i] \cap Sensitive = {}

\* a user whose session was renewed is serialized in full, recipes included
C6_Witness ==
    /\ last.op = "serialize"
    /\ last.raised = ""
    /\ users[last.user].session_token # UserRow(last.user, "str").session_token
    /\ Len(last.ret.saved_recipes) = 2

RECURSIVE join(_, _)
join(parts, sep) ==
    IF Len(parts) = 1 THEN parts[1]
    ELSE parts[1] \o <<sep>> \o join(Tail(parts), sep)

SerializedAsList(stored, got) ==
    /\ stored.type = "list" => got = stored.v
    /\ stored.type = "str" =>
          /\ Len(got) = 1 + Cardinality({i \in 1..Len(stored.v) : stored.v[i] = NL})
          /\ \A i \in 1..Len(got) : \A j \in 1..Len(got[i]) : got[i][j] # NL
          /\ join(got, NL) = stored.v

\* C9: Recipe.serialize returns ingredients and instructions as lists: a
\* field stored as a list is returned as that list, a field stored as a
\* string is returned as its lines in order (the pieces between the "\n",
\* which joined by "\n" give the string back; "a\na" gives ["a", "a"]); and
\* serialize leaves the stored recipe as it was.
C9_RecipeListsNormalized ==
    /\ [](last.op = "recipe_serialize" =>
            /\ last.raised = ""
            /\ SerializedAsList(recipes[last.user].ingredients, last.ret.ingredients)
            /\ SerializedAsList(recipes[last.user].instructions, last.ret.instructions)
            /\ recipes[last.user].ingredients = Str(<<"a", NL, "a">>)
                  => last.ret.ingredients = << <<"a">>, <<"a">> >>)
    /\ [][recipes' = recipes]_vars

\* a recipe with a newline-delimited string and a list is serialized
C9_Witness ==
    /\ last.op = "recipe_serialize"
    /\ recipes[last.user].ingredients = Str(<<"a", NL, "a">>)
    /\ recipes[last.user].instructions = List(<< <<"a">>, <<"a", NL, "a">> >>)
    /\ last.ret.ingredients = << <<"a">>, <<"a">> >>
    /\ last.ret.instructions = << <<"a">>, <<"a", NL, "a">> >>

Required == {"first_name", "last_name", "username", "password_digest"}

AllPresent(kwargs) == \A k \in Required : kwargs[k].type = "str"

SomeMissing(kwargs) == \E k \in Required : kwargs[k] = None

\* C3: a create with all required fields completes, and the user it returns
\* has a session token, an update token and an expiration, and its session
\* token verifies at once.
C3_CreateIssuesSession ==
    (last.op = "create" /\ AllPresent(last.arg)) =>
        /\ last.raised = ""
        /\ last.ret.session_token \in Tokens
        /\ last.ret.update_token \in Tokens
        /\ last.ret.session_expiration = now + timedelta
        /\ verify_session_token(last.ret, last.ret.session_token, now)

\* C4: a user created with password p stores a digest other than p, and
\* verify_password returns true for p and false for every other string.
C4_PasswordDigest ==
    /\ (last.op = "create" /\ AllPresent(last.arg)) =>
          /\ last.raised = ""
          /\ last.ret.password_digest # last.arg.password_digest
          /\ verify_password(last.ret, last.arg.password_digest) = Return(TRUE)
    /\ (last.op = "verify_password" /\ last.arg.type = "str") =>
          /\ users[last.user].password_digest.v # StoredPassword
          /\ last.raised = ""
          /\ last.ret = TRUE <=> last.arg.v = StoredPassword

\* C5: a create with a required field missing fails with a ValidationError
\* and yields no user.
C5_MissingFieldRejected ==
    (last.op = "create" /\ SomeMissing(last.arg)) =>
        /\ last.raised = "ValidationError"
        /\ last.ret = None

====
